---- MODULE Spec2Model ----
(***************************************************************************)
(* Model of the partial-date engine of bookcat (src/bookcat_utils.js):     *)
(* areDateCompsValid / isDateValid (validator), parseDate (parser),        *)
(* getDateString / getDateCompString (formatter), compareDates             *)
(* (comparator), and of its users: DateControl (text input and date        *)
(* picker), DateComp (cell editor), DateFilterComponent and                *)
(* DateFloatingFilterComponent.                                            *)
(*                                                                         *)
(* JavaScript values are modelled as records tagged with a `type' field,   *)
(* because the code's behaviour depends on dynamic typing (truthiness of   *)
(* 0, "" , null and undefined; property access on a number):               *)
(*   undefined   [type |-> "undefined"]                                    *)
(*   null        [type |-> "null"]                                         *)
(*   a number    [type |-> "number", val |-> n]                            *)
(*   a string    [type |-> "string", val |-> <<"2","0">>]                  *)
(*   a date      [type |-> "object", year |-> 2020, month |-> 2]           *)
(*               (exactly the properties that were assigned)               *)
(* A text is a sequence of one-character strings.                          *)
(***************************************************************************)
EXTENDS Integers, Sequences, FiniteSets, TLC

VARIABLES
    pc,          \* which calls have been made so far
    dateString,  \* the text handed to parseDate
    date,        \* date[v]: result of parseDate(dateString, v); undefined before the call
    formatted,   \* getDateString(date[TRUE])
    reparsed,    \* parseDate(formatted)
    year,        \* arguments of areDateCompsValid
    month,
    day,
    valid,       \* result of areDateCompsValid
    dateArg,     \* the date handed to getDateString directly
    refDate,     \* arguments of compareDates
    compDate,
    comparison,  \* result of compareDates
    filterType,      \* date filter: value of the filter type dropdown
    startDateInput,  \* date filter: text of the start date control
    endDateInput,    \* date filter: text of the end date control
    rowDate,         \* the date of the row handed to doesFilterPass
    pass,            \* result of doesFilterPass
    inputValue,      \* date control: text of the visible date input
    invalidData,     \* date control: the input carries cat-invalid-data
    pickerDate,      \* date control: text of the date selected in the picker
    pickerView,      \* date control: text of the date the picker shows
    calls,           \* date control: handler calls that are still to run
    chain,           \* date control: the user action and the handlers run for it
    editorValue,     \* cell editor: text of its date control
    cancelAfterEnd,  \* cell editor: result of isCancelAfterEnd
    hideStartDate,   \* date filter: the start date control is hidden
    hideEndDate,     \* date filter: the end date control is hidden
    floatingValue,   \* floating filter: text of the editable date control
    editableVisible, \* floating filter: the editable control is the visible one
    readonlyPlaceholder  \* floating filter: placeholder of the read-only control

vars == <<pc, dateString, date, formatted, reparsed, year, month, day, valid,
          dateArg, refDate, compDate, comparison,
          filterType, startDateInput, endDateInput, rowDate, pass,
          inputValue, invalidData, pickerDate, pickerView, calls, chain,
          editorValue, cancelAfterEnd,
          hideStartDate, hideEndDate, floatingValue, editableVisible,
          readonlyPlaceholder>>

parserVars == <<dateString, date, formatted, reparsed>>
validatorVars == <<year, month, day, valid>>
formatterVars == <<dateArg>>
comparatorVars == <<refDate, compDate, comparison>>
filterVars == <<filterType, startDateInput, endDateInput, rowDate, pass>>
controlVars == <<inputValue, invalidData, pickerDate, pickerView, calls, chain>>
editorVars == <<editorValue, cancelAfterEnd>>
guiVars == <<hideStartDate, hideEndDate, floatingValue, editableVisible,
             readonlyPlaceholder>>

---------------------------------------------------------------------------
(* Bounds of the explored inputs *)

MaxTextLen == 6
MaxYearsBelowZero == 2
MaxYear == 400
MaxDayInput == 33
MaxFormatYear == 110
MaxCompareValue == 3
MaxFilterYears == 3
MaxChain == 8
MaxGuiChain == 32

---------------------------------------------------------------------------
(* JavaScript values *)

Undefined == [type |-> "undefined"]
Null == [type |-> "null"]
Num(n) == [type |-> "number", val |-> n]
Str(s) == [type |-> "string", val |-> s]
Bool(b) == [type |-> "boolean", val |-> b]

\* ToBoolean: undefined, null, 0 and "" are falsy; objects are truthy
Truthy(v) ==
    CASE v.type = "undefined" -> FALSE
      [] v.type = "null" -> FALSE
      [] v.type = "number" -> v.val # 0
      [] v.type = "string" -> Len(v.val) > 0
      [] v.type = "boolean" -> v.val
      [] OTHER -> TRUE

\* value[key]: a property that was never assigned, and any property of a
\* number, reads as undefined
Get(v, key) ==
    IF v.type = "object" /\ key \in DOMAIN v THEN Num(v[key]) ELSE Undefined

\* a < b on two values that are numbers or undefined: a comparison with
\* undefined (NaN) is false
JsLess(a, b) == a.type = "number" /\ b.type = "number" /\ a.val < b.val

\* The object with exactly the properties whose value is a number
DateObject(y, m, d) ==
    LET present == {k \in {"year", "month", "day"} :
                       \/ k = "year" /\ y.type = "number"
                       \/ k = "month" /\ m.type = "number"
                       \/ k = "day" /\ d.type = "number"}
    IN [k \in {"type"} \cup present |->
            CASE k = "type" -> "object"
              [] k = "year" -> y.val
              [] k = "month" -> m.val
              [] k = "day" -> d.val]

---------------------------------------------------------------------------
(* Constants of the date format *)

DATE_COMP_YEAR == "year"
DATE_COMP_MONTH == "month"
DATE_COMP_DAY == "day"
DATE_COMP_SEP == "-"

YEAR_MIN == 1
MONTH_MIN == 1
MONTH_MAX == 12
STD_MONTH_LENGTHS == <<31, 28, 31, 30, 31, 30, 31, 31, 30, 31, 30, 31>>
FEB_LEAP_YEAR_DAYS == 29

Digits == {"0", "1", "2", "3", "4", "5", "6", "7", "8", "9"}
NonZeroDigits == Digits \ {"0"}

\* /^[1-9][0-9]*$/
REGEX_YEAR(s) ==
    /\ Len(s) >= 1
    /\ s[1] \in NonZeroDigits
    /\ \A i \in 2..Len(s) : s[i] \in Digits

\* /^(1[0-2]|0?[1-9])$/
REGEX_MONTH(s) ==
    \/ Len(s) = 2 /\ s[1] = "1" /\ s[2] \in {"0", "1", "2"}
    \/ Len(s) = 2 /\ s[1] = "0" /\ s[2] \in NonZeroDigits
    \/ Len(s) = 1 /\ s[1] \in NonZeroDigits

\* /^(0?[1-9]|[1-2][0-9]|3[01])$/
REGEX_DAY(s) ==
    \/ Len(s) = 2 /\ s[1] = "0" /\ s[2] \in NonZeroDigits
    \/ Len(s) = 1 /\ s[1] \in NonZeroDigits
    \/ Len(s) = 2 /\ s[1] \in {"1", "2"} /\ s[2] \in Digits
    \/ Len(s) = 2 /\ s[1] = "3" /\ s[2] \in {"0", "1"}

---------------------------------------------------------------------------
(* String <-> number conversions *)

DigitValue(c) ==
    CASE c = "0" -> 0 [] c = "1" -> 1 [] c = "2" -> 2 [] c = "3" -> 3
      [] c = "4" -> 4 [] c = "5" -> 5 [] c = "6" -> 6 [] c = "7" -> 7
      [] c = "8" -> 8 [] c = "9" -> 9

DigitChar(n) ==
    CASE n = 0 -> "0" [] n = 1 -> "1" [] n = 2 -> "2" [] n = 3 -> "3"
      [] n = 4 -> "4" [] n = 5 -> "5" [] n = 6 -> "6" [] n = 7 -> "7"
      [] n = 8 -> "8" [] n = 9 -> "9"

RECURSIVE ParseDigits(_, _)
ParseDigits(s, acc) ==
    IF s = <<>> \/ Head(s) \notin Digits
    THEN acc
    ELSE ParseDigits(Tail(s), acc * 10 + DigitValue(Head(s)))

\* parseInt(s) for a text that starts with a digit (every text the parser
\* converts has passed one of the three patterns): the value of the leading
\* run of decimal digits.
ParseInt(s) == ParseDigits(s, 0)

RECURSIVE NatToString(_)
NatToString(n) ==
    IF n < 10
    THEN <<DigitChar(n)>>
    ELSE Append(NatToString(n \div 10), DigitChar(n % 10))

\* Number.prototype.toString for an integer
NumberToString(n) == IF n < 0 THEN <<"-">> \o NatToString(0 - n) ELSE NatToString(n)

\* String.prototype.split(sep): the pieces between the occurrences of sep;
\* a text without sep (the empty text included) is one piece
RECURSIVE SplitFrom(_, _, _)
SplitFrom(s, sep, cur) ==
    IF s = <<>>
    THEN <<cur>>
    ELSE IF Head(s) = sep
         THEN <<cur>> \o SplitFrom(Tail(s), sep, <<>>)
         ELSE SplitFrom(Tail(s), sep, Append(cur, Head(s)))

Split(s, sep) == SplitFrom(s, sep, <<>>)

---------------------------------------------------------------------------
(* Validator *)

\* areDateCompsValid with the leap-year test reduced to "divisible by 4"
areDateCompsValidNoCenturyRule(y, m, d) ==
    IF Truthy(y)
    THEN IF y.val >= YEAR_MIN /\ Truthy(m)
         THEN IF (m.val >= MONTH_MIN /\ m.val <= MONTH_MAX) /\ Truthy(d)
              THEN LET day_max ==
                        IF m.val = 2 /\ y.val % 4 = 0
                        THEN FEB_LEAP_YEAR_DAYS
                        ELSE STD_MONTH_LENGTHS[m.val]
                   IN d.val <= day_max
              ELSE m.val >= MONTH_MIN /\ m.val <= MONTH_MAX
         ELSE y.val >= YEAR_MIN
    ELSE TRUE

areDateCompsValid(y, m, d) ==
    IF Truthy(y)
    THEN IF y.val >= YEAR_MIN /\ Truthy(m)
         THEN IF (m.val >= MONTH_MIN /\ m.val <= MONTH_MAX) /\ Truthy(d)
              THEN LET day_max ==
                        IF m.val = 2 /\ (y.val % 400 = 0 \/
                                         (y.val % 4 = 0 /\ y.val % 100 # 0))
                        THEN FEB_LEAP_YEAR_DAYS
                        ELSE STD_MONTH_LENGTHS[m.val]
                   IN d.val <= day_max
              ELSE m.val >= MONTH_MIN /\ m.val <= MONTH_MAX
         ELSE y.val >= YEAR_MIN
    ELSE TRUE

isDateValid(d) ==
    IF Truthy(d)
    THEN areDateCompsValid(Get(d, DATE_COMP_YEAR),
                           Get(d, DATE_COMP_MONTH),
                           Get(d, DATE_COMP_DAY))
    ELSE TRUE

---------------------------------------------------------------------------
(* Parser *)

\* The three pattern tests of parseDate.  y is the first piece (always a
\* string); m and d are a piece or null; a falsy piece ("" or null) is not
\* tested.
patternsPass(y, m, d) ==
    /\ REGEX_YEAR(y)
    /\ (~Truthy(m) \/ REGEX_MONTH(m.val))
    /\ (~Truthy(d) \/ REGEX_DAY(d.val))

\* assembleDate with the day assigned outside the `if (month)' block
assembleDateDayNotNested(y, m, d) ==
    IF Truthy(m)
    THEN IF Truthy(d)
         THEN [type |-> "object", year |-> ParseInt(y),
               month |-> ParseInt(m.val), day |-> ParseInt(d.val)]
         ELSE [type |-> "object", year |-> ParseInt(y),
               month |-> ParseInt(m.val)]
    ELSE IF Truthy(d)
         THEN [type |-> "object", year |-> ParseInt(y),
               day |-> ParseInt(d.val)]
         ELSE [type |-> "object", year |-> ParseInt(y)]

\* The date object parseDate assembles once the checks have passed
assembleDate(y, m, d) ==
    IF Truthy(m)
    THEN IF Truthy(d)
         THEN [type |-> "object", year |-> ParseInt(y),
               month |-> ParseInt(m.val), day |-> ParseInt(d.val)]
         ELSE [type |-> "object", year |-> ParseInt(y),
               month |-> ParseInt(m.val)]
    ELSE [type |-> "object", year |-> ParseInt(y)]

\* The validation step of parseDate:
\*   !validate || isDateValid(parseInt(year), parseInt(month), parseInt(day))
\* isDateValid declares one parameter, so it receives the number
\* parseInt(year) as its `date' and the other two arguments are dropped.
dateOkay(y, m, d, validate) ==
    ~validate \/ isDateValid(Num(ParseInt(y)))

\* partCountOkay with the upper limit off by one
partCountOkayUpToFour(dateComponents) ==
    Len(dateComponents) > 0 /\ Len(dateComponents) <= 4

\* How many pieces parseDate accepts
partCountOkay(dateComponents) ==
    Len(dateComponents) > 0 /\ Len(dateComponents) <= 3

parseDate(text, validate) ==
    IF Len(text) > 0
    THEN LET dateComponents == Split(text, DATE_COMP_SEP)
         IN IF partCountOkay(dateComponents)
            THEN LET y == dateComponents[1]
                     m == IF Len(dateComponents) > 1
                          THEN Str(dateComponents[2]) ELSE Null
                     d == IF Len(dateComponents) > 2
                          THEN Str(dateComponents[3]) ELSE Null
                 IN IF patternsPass(y, m, d) /\ dateOkay(y, m, d, validate)
                    THEN assembleDate(y, m, d)
                    ELSE Null
            ELSE Null
    ELSE Null

\* candidateDate != null is false for null and undefined
isDateString(candidateDateStr) ==
    parseDate(candidateDateStr, TRUE) \notin {Null, Undefined}

\* DateComp.isCancelAfterEnd; dateStr is this.dateControl.getDate()
isCancelAfterEnd(dateStr) == ~isDateString(dateStr)

---------------------------------------------------------------------------
(* Formatter *)

\* getDateCompString padding the month and the day whatever their value
getDateCompStringAlwaysPads(y, m, d) ==
    IF Truthy(y)
    THEN LET yearStr == NumberToString(y.val)
         IN IF Truthy(m)
            THEN LET monthStr ==
                         yearStr \o <<DATE_COMP_SEP>> \o <<"0">>
                                 \o NumberToString(m.val)
                 IN IF Truthy(d)
                    THEN monthStr \o <<DATE_COMP_SEP>> \o <<"0">>
                                  \o NumberToString(d.val)
                    ELSE monthStr
            ELSE yearStr
    ELSE <<>>

\* getDateCompString without the zero padding
getDateCompStringNoPadding(y, m, d) ==
    IF Truthy(y)
    THEN LET yearStr == NumberToString(y.val)
         IN IF Truthy(m)
            THEN LET monthStr ==
                         yearStr \o <<DATE_COMP_SEP>> \o NumberToString(m.val)
                 IN IF Truthy(d)
                    THEN monthStr \o <<DATE_COMP_SEP>> \o NumberToString(d.val)
                    ELSE monthStr
            ELSE yearStr
    ELSE <<>>

\* getDateCompString with the day appended outside the `if (month)' block
getDateCompStringDayNotNested(y, m, d) ==
    IF Truthy(y)
    THEN LET yearStr == NumberToString(y.val)
             monthStr ==
                 IF Truthy(m)
                 THEN yearStr \o <<DATE_COMP_SEP>>
                              \o (IF m.val < 10 THEN <<"0">> ELSE <<>>)
                              \o NumberToString(m.val)
                 ELSE yearStr
         IN IF Truthy(d)
            THEN monthStr \o <<DATE_COMP_SEP>>
                          \o (IF d.val < 10 THEN <<"0">> ELSE <<>>)
                          \o NumberToString(d.val)
            ELSE monthStr
    ELSE <<>>

getDateCompString(y, m, d) ==
    IF Truthy(y)
    THEN LET yearStr == NumberToString(y.val)
         IN IF Truthy(m)
            THEN LET monthStr ==
                         yearStr \o <<DATE_COMP_SEP>>
                                 \o (IF m.val < 10 THEN <<"0">> ELSE <<>>)
                                 \o NumberToString(m.val)
                 IN IF Truthy(d)
                    THEN monthStr \o <<DATE_COMP_SEP>>
                                  \o (IF d.val < 10 THEN <<"0">> ELSE <<>>)
                                  \o NumberToString(d.val)
                    ELSE monthStr
            ELSE yearStr
    ELSE <<>>

getDateString(d) ==
    IF Truthy(d)
    THEN getDateCompString(Get(d, DATE_COMP_YEAR),
                           Get(d, DATE_COMP_MONTH),
                           Get(d, DATE_COMP_DAY))
    ELSE <<>>

---------------------------------------------------------------------------
(* Comparator *)

\* Each section of compareDates either returns (<<result>>) or falls
\* through to the next section (<<>>).

\* compareNulls with the two one-sided results exchanged
compareNullsSwapped(ref, comp) ==
    IF ~Truthy(ref) /\ ~Truthy(comp) THEN <<0>>
    ELSE IF ~Truthy(ref) THEN <<1>>
    ELSE IF ~Truthy(comp) THEN <<0 - 1>>
    ELSE <<>>

\* null / undefined arguments
compareNulls(ref, comp) ==
    IF ~Truthy(ref) /\ ~Truthy(comp) THEN <<0>>
    ELSE IF ~Truthy(ref) THEN <<0 - 1>>
    ELSE IF ~Truthy(comp) THEN <<1>>
    ELSE <<>>

\* compareYears without the `refYear > compYear' test
compareYearsOnlyLess(ref, comp) ==
    LET refYear == Get(ref, DATE_COMP_YEAR)
        compYear == Get(comp, DATE_COMP_YEAR)
    IN IF JsLess(refYear, compYear) THEN <<0 - 1>>
       ELSE <<>>

\* compareYears returning the difference of the years instead of its sign
compareYearsDifference(ref, comp) ==
    LET refYear == Get(ref, DATE_COMP_YEAR)
        compYear == Get(comp, DATE_COMP_YEAR)
    IN IF JsLess(refYear, compYear) \/ JsLess(compYear, refYear)
       THEN <<refYear.val - compYear.val>>
       ELSE <<>>

compareYears(ref, comp) ==
    LET refYear == Get(ref, DATE_COMP_YEAR)
        compYear == Get(comp, DATE_COMP_YEAR)
    IN IF JsLess(refYear, compYear) THEN <<0 - 1>>
       ELSE IF JsLess(compYear, refYear) THEN <<1>>
       ELSE <<>>

\* compareMonths treating a missing candidate month like a missing
\* reference month (a symmetric "equals")
compareMonthsSymmetric(ref, comp) ==
    LET refMonth == Get(ref, DATE_COMP_MONTH)
        compMonth == Get(comp, DATE_COMP_MONTH)
    IN IF ~Truthy(refMonth) THEN <<0>>
       ELSE IF ~Truthy(compMonth) THEN <<0>>
       ELSE IF JsLess(refMonth, compMonth) THEN <<0 - 1>>
       ELSE IF JsLess(compMonth, refMonth) THEN <<1>>
       ELSE <<>>

\* compareMonths reporting a reference with a month as before a candidate
\* without one
compareMonthsMissingCandidateBefore(ref, comp) ==
    LET refMonth == Get(ref, DATE_COMP_MONTH)
        compMonth == Get(comp, DATE_COMP_MONTH)
    IN IF ~Truthy(refMonth) THEN <<0>>
       ELSE IF ~Truthy(compMonth) THEN <<0 - 1>>
       ELSE IF JsLess(refMonth, compMonth) THEN <<0 - 1>>
       ELSE IF JsLess(compMonth, refMonth) THEN <<1>>
       ELSE <<>>

\* compareMonths reading the candidate's day where it should read its month
compareMonthsAgainstDay(ref, comp) ==
    LET refMonth == Get(ref, DATE_COMP_MONTH)
        compMonth == Get(comp, DATE_COMP_DAY)
    IN IF ~Truthy(refMonth) THEN <<0>>
       ELSE IF ~Truthy(compMonth) THEN <<1>>
       ELSE IF JsLess(refMonth, compMonth) THEN <<0 - 1>>
       ELSE IF JsLess(compMonth, refMonth) THEN <<1>>
       ELSE <<>>

compareMonths(ref, comp) ==
    LET refMonth == Get(ref, DATE_COMP_MONTH)
        compMonth == Get(comp, DATE_COMP_MONTH)
    IN IF ~Truthy(refMonth) THEN <<0>>
       ELSE IF ~Truthy(compMonth) THEN <<1>>
       ELSE IF JsLess(refMonth, compMonth) THEN <<0 - 1>>
       ELSE IF JsLess(compMonth, refMonth) THEN <<1>>
       ELSE <<>>

\* compareDays with the two day tests exchanged
compareDaysReversed(ref, comp) ==
    LET refDay == Get(ref, DATE_COMP_DAY)
        compDay == Get(comp, DATE_COMP_DAY)
    IN IF ~Truthy(refDay) THEN <<0>>
       ELSE IF ~Truthy(compDay) THEN <<1>>
       ELSE IF JsLess(refDay, compDay) THEN <<1>>
       ELSE IF JsLess(compDay, refDay) THEN <<0 - 1>>
       ELSE <<0>>

\* compareDays treating a missing candidate day like a missing reference
\* day
compareDaysMissingCandidateEqual(ref, comp) ==
    LET refDay == Get(ref, DATE_COMP_DAY)
        compDay == Get(comp, DATE_COMP_DAY)
    IN IF ~Truthy(refDay) THEN <<0>>
       ELSE IF ~Truthy(compDay) THEN <<0>>
       ELSE IF JsLess(refDay, compDay) THEN <<0 - 1>>
       ELSE IF JsLess(compDay, refDay) THEN <<1>>
       ELSE <<0>>

compareDays(ref, comp) ==
    LET refDay == Get(ref, DATE_COMP_DAY)
        compDay == Get(comp, DATE_COMP_DAY)
    IN IF ~Truthy(refDay) THEN <<0>>
       ELSE IF ~Truthy(compDay) THEN <<1>>
       ELSE IF JsLess(refDay, compDay) THEN <<0 - 1>>
       ELSE IF JsLess(compDay, refDay) THEN <<1>>
       ELSE <<0>>

compareDates(ref, comp) ==
    IF compareNulls(ref, comp) # <<>> THEN compareNulls(ref, comp)[1]
    ELSE IF compareYears(ref, comp) # <<>> THEN compareYears(ref, comp)[1]
    ELSE IF compareMonths(ref, comp) # <<>> THEN compareMonths(ref, comp)[1]
    ELSE compareDays(ref, comp)[1]

---------------------------------------------------------------------------
(* Date filter *)

\* FilterTypeEnum
FT_ON == 0
FT_BEFORE == 1
FT_AFTER == 2
FT_NOT == 3
FT_BETWEEN == 4
FT_UNKNOWN == 5

\* The values of the options of the filter type dropdown (filterTypeDefs)
filterTypeDefs == {FT_ON, FT_BEFORE, FT_AFTER, FT_NOT, FT_BETWEEN, FT_UNKNOWN}

\* parseDateComponents and compareDateComponents are called by the filter
\* but defined in no file of src/; they are modelled on the parser
\* (spec.md 4.2, validating through 4.1) and the comparator (spec.md 4.4).

\* spec.md 4.1, isValid(year, month?, day?): each argument a number or
\* undefined (absent)
isValid(y, m, d) ==
    IF y.type # "number" THEN TRUE
    ELSE IF y.val < 1 THEN FALSE
    ELSE IF m.type = "number" /\ ~(1 <= m.val /\ m.val <= 12) THEN FALSE
    ELSE IF d.type = "number" /\ m.type = "number"
         THEN LET leap == y.val % 400 = 0
                          \/ (y.val % 4 = 0 /\ y.val % 100 # 0)
                  maxDay == IF m.val = 2 /\ leap
                            THEN 29
                            ELSE <<31, 28, 31, 30, 31, 30,
                                   31, 31, 30, 31, 30, 31>>[m.val]
              IN d.val <= maxDay
         ELSE TRUE

\* spec.md 4.2, parse(text): null when the text is no date, otherwise the
\* object with exactly the components present in the text
parseDateComponents(text) ==
    IF text = <<>> THEN Null
    ELSE LET parts == Split(text, DATE_COMP_SEP)
             part(i) == IF i <= Len(parts)
                        THEN Num(ParseInt(parts[i]))
                        ELSE Undefined
         IN IF Len(parts) > 3 THEN Null
            ELSE IF ~REGEX_YEAR(parts[1]) THEN Null
            ELSE IF Len(parts) >= 2 /\ ~REGEX_MONTH(parts[2]) THEN Null
            ELSE IF Len(parts) >= 3 /\ ~REGEX_DAY(parts[3]) THEN Null
            ELSE IF ~isValid(part(1), part(2), part(3)) THEN Null
            ELSE DateObject(part(1), part(2), part(3))

\* spec.md 4.4, compare(reference, candidate), rules 1 to 7 top-down; a
\* component is absent when the object has no such property
compareDateComponents(reference, candidate) ==
    LET absent(v) == v.type # "object"
        refMonth == Get(reference, "month")
        refDay == Get(reference, "day")
        sign(a, b) == IF JsLess(a, b) THEN 0 - 1
                      ELSE IF JsLess(b, a) THEN 1 ELSE 0
    IN IF absent(reference) /\ absent(candidate) THEN 0
       ELSE IF absent(reference) THEN 0 - 1
       ELSE IF absent(candidate) THEN 1
       ELSE IF sign(Get(reference, "year"), Get(candidate, "year")) # 0
            THEN sign(Get(reference, "year"), Get(candidate, "year"))
       ELSE IF refMonth = Undefined THEN 0
       ELSE IF Get(candidate, "month") = Undefined THEN 1
       ELSE IF sign(refMonth, Get(candidate, "month")) # 0
            THEN sign(refMonth, Get(candidate, "month"))
       ELSE IF refDay = Undefined THEN 0
       ELSE IF Get(candidate, "day") = Undefined THEN 1
       ELSE sign(refDay, Get(candidate, "day"))

\* isFilterActive requiring the end date for every filter type
isFilterActiveEndAlwaysRequired(type, startText, endText) ==
    LET filterTypeVal == ParseInt(type)
        startDate == parseDateComponents(startText)
        endDate == parseDateComponents(endText)
    IN IF filterTypeVal = FT_UNKNOWN THEN Bool(TRUE)
       ELSE IF ~Truthy(startDate) THEN startDate
       ELSE endDate

\* DateFilterComponent.isFilterActive; the value of
\* startDate && (endDate || filterTypeVal != FT_BETWEEN) is returned as is
isFilterActive(type, startText, endText) ==
    LET filterTypeVal == ParseInt(type)
        startDate == parseDateComponents(startText)
        endDate == parseDateComponents(endText)
    IN IF filterTypeVal = FT_UNKNOWN THEN Bool(TRUE)
       ELSE IF ~Truthy(startDate) THEN startDate
       ELSE IF Truthy(endDate) THEN endDate
       ELSE Bool(filterTypeVal # FT_BETWEEN)

\* Object.keys(value).length of an object
KeyCount(v) == Cardinality(DOMAIN v \ {"type"})

\* The switch of doesFilterPass on the filter type: the new value of pass,
\* which starts as true
filterTypePassBetweenInclusive(filterTypeVal, startDateComparison, endDateComparison) ==
    CASE filterTypeVal = FT_ON -> Bool(startDateComparison = 0)
      [] filterTypeVal = FT_AFTER -> Bool(startDateComparison < 0)
      [] filterTypeVal = FT_BEFORE -> Bool(startDateComparison > 0)
      [] filterTypeVal = FT_NOT -> Num(startDateComparison)
      [] filterTypeVal = FT_BETWEEN ->
             Bool(startDateComparison <= 0 /\ endDateComparison >= 0)
      [] OTHER -> Bool(TRUE)

filterTypePassNotAsAfter(filterTypeVal, startDateComparison, endDateComparison) ==
    CASE filterTypeVal = FT_ON -> Bool(startDateComparison = 0)
      [] filterTypeVal = FT_AFTER -> Bool(startDateComparison < 0)
      [] filterTypeVal = FT_BEFORE -> Bool(startDateComparison > 0)
      [] filterTypeVal = FT_NOT -> Bool(startDateComparison < 0)
      [] filterTypeVal = FT_BETWEEN ->
             Bool(startDateComparison < 0 /\ endDateComparison > 0)
      [] OTHER -> Bool(TRUE)

\* the switch with Before also passing a row the start date is equal to
filterTypePassBeforeInclusive(filterTypeVal, startDateComparison, endDateComparison) ==
    CASE filterTypeVal = FT_ON -> Bool(startDateComparison = 0)
      [] filterTypeVal = FT_AFTER -> Bool(startDateComparison < 0)
      [] filterTypeVal = FT_BEFORE -> Bool(startDateComparison >= 0)
      [] filterTypeVal = FT_NOT -> Num(startDateComparison)
      [] filterTypeVal = FT_BETWEEN ->
             Bool(startDateComparison < 0 /\ endDateComparison > 0)
      [] OTHER -> Bool(TRUE)

filterTypePass(filterTypeVal, startDateComparison, endDateComparison) ==
    CASE filterTypeVal = FT_ON -> Bool(startDateComparison = 0)
      [] filterTypeVal = FT_AFTER -> Bool(startDateComparison < 0)
      [] filterTypeVal = FT_BEFORE -> Bool(startDateComparison > 0)
      [] filterTypeVal = FT_NOT -> Num(startDateComparison)
      [] filterTypeVal = FT_BETWEEN ->
             Bool(startDateComparison < 0 /\ endDateComparison > 0)
      [] OTHER -> Bool(TRUE)

\* doesFilterPass leaving pass true for a row without a date
doesFilterPassAbsentRowPasses(type, startText, endText, row) ==
    LET filterTypeVal == ParseInt(type)
        startDate == parseDateComponents(startText)
        endDate == parseDateComponents(endText)
    IN IF ~Truthy(isFilterActive(type, startText, endText)) THEN Bool(TRUE)
       ELSE IF filterTypeVal = FT_UNKNOWN
            THEN Bool(~Truthy(row) \/ KeyCount(row) = 0)
       ELSE IF Truthy(row)
            THEN filterTypePass(filterTypeVal,
                                compareDateComponents(startDate, row),
                                compareDateComponents(endDate, row))
       ELSE Bool(TRUE)

\* DateFilterComponent.doesFilterPass for a row whose valueGetter returns
\* row; the value of pass is returned as is (for FT_NOT it is the number
\* startDateComparison)
doesFilterPass(type, startText, endText, row) ==
    LET filterTypeVal == ParseInt(type)
        startDate == parseDateComponents(startText)
        endDate == parseDateComponents(endText)
    IN IF ~Truthy(isFilterActive(type, startText, endText)) THEN Bool(TRUE)
       ELSE IF filterTypeVal = FT_UNKNOWN
            THEN Bool(~Truthy(row) \/ KeyCount(row) = 0)
       ELSE IF Truthy(row)
            THEN filterTypePass(filterTypeVal,
                                compareDateComponents(startDate, row),
                                compareDateComponents(endDate, row))
       ELSE Bool(FALSE)

---------------------------------------------------------------------------
(* Date control *)

\* A handler runs when it is called or when its event is dispatched, and the
\* calls it makes run before it returns.  The model keeps the calls that
\* have been made and not yet run in `calls' and runs one call per step, so
\* that the chain of handlers started by one user action is visible (and
\* need not be finite).  Each call is a record: its function and arguments.

\* DateControl.onDatePicked(selectedDates, dateStr, instance): the call it
\* makes
onDatePickedRaisesEvent(dateStr) ==
    [fn |-> "processDateUpdate", dateStr |-> dateStr,
     raiseEvent |-> TRUE, bubbleEvent |-> TRUE]

onDatePicked(dateStr) ==
    [fn |-> "processDateUpdate", dateStr |-> dateStr,
     raiseEvent |-> FALSE, bubbleEvent |-> TRUE]

\* DateControl.synchGUI(): the call it makes
synchGUI ==
    [fn |-> "processDateUpdate", dateStr |-> Null,
     raiseEvent |-> TRUE, bubbleEvent |-> TRUE]

\* DateControl.setDate(dateStr, bubble): the call it makes
setDate(dateStr, bubble) ==
    [fn |-> "processDateUpdate", dateStr |-> dateStr,
     raiseEvent |-> TRUE, bubbleEvent |-> bubble]

\* DateControl.processDateUpdate: the value of the date input afterwards
\* (dateStr != null is false for null and undefined)
processDateUpdateValue(value, dateStr) ==
    IF dateStr.type \notin {"null", "undefined"} THEN dateStr.val ELSE value

\* DateControl.processDateUpdate: the change event it dispatches on the
\* date input, which runs the input's change listener, onDateInputChanged
processDateUpdateEvents(raiseEvent, bubbleEvent) ==
    IF raiseEvent
    THEN <<[fn |-> "onDateInputChanged", bubbles |-> bubbleEvent]>>
    ELSE <<>>

\* DateControl.onDateInputChanged: whether the input is marked invalid
\* (the spec-modelled parseDateComponents decides whether a text is a date)
onDateInputChangedInvalid(dateStr) ==
    Truthy(Str(dateStr)) /\ ~Truthy(parseDateComponents(dateStr))

\* DateControl.onDateInputChanged: the call it makes on the date picker
onDateInputChanged(dateStr) ==
    LET dateComponents == parseDateComponents(dateStr)
        fullySpecifiedDate ==
            \/ ~Truthy(Str(dateStr))
            \/ /\ Truthy(dateComponents)
               /\ Truthy(Get(dateComponents, "year"))
               /\ Truthy(Get(dateComponents, "month"))
               /\ Truthy(Get(dateComponents, "day"))
    IN IF fullySpecifiedDate
       THEN [fn |-> "datePicker.setDate", dateStr |-> dateStr,
             triggerChange |-> FALSE]
       ELSE [fn |-> "datePicker.jumpToDate", dateStr |-> dateStr,
             triggerChange |-> FALSE]

\* The date picker (flatpickr, configured with onChange: onDatePicked):
\* setDate and jumpToDate run the onChange hook at most when triggerChange
\* is true
datePickerOnChange(dateStr, triggerChange) ==
    IF triggerChange
    THEN <<[fn |-> "onDatePicked", dateStr |-> Str(dateStr)]>>
    ELSE <<>>

---------------------------------------------------------------------------
(* Date filter and floating filter: handlers *)

\* As for the date control, a handler is a step that replaces the call at
\* the head of `calls' by the calls it makes, in their order.  A call on one
\* of the three date controls ("start" and "end" of the date filter,
\* "editable" of the floating filter) carries the control.  A filter model
\* is an object whose three properties are JavaScript values, undefined for
\* a property the object does not have:
\*   [type |-> "object", ftype |-> .., start_date |-> .., end_date |-> ..]

DEFAULT_TYPE_VALUE == FT_ON
DEFAULT_DATE_STR == <<>>

FilterModel(ftype, startDate, endDate) ==
    [type |-> "object", ftype |-> ftype, start_date |-> startDate,
     end_date |-> endDate]

\* A call of a date control's method on the given control
On(control, call) == call @@ [control |-> control]

\* DateFilterComponent.filterTypeChanged
filterTypeChanged == <<[fn |-> "synchGUI"], [fn |-> "reapplyFilter"]>>

\* DateFilterComponent.reapplyFilter
reapplyFilter == <<[fn |-> "filterChangedCallback"]>>

\* DateFilterComponent.applyDefaultDates(bubble)
applyDefaultDates(bubble) ==
    <<On("start", setDate(Str(DEFAULT_DATE_STR), bubble)),
      On("end", setDate(Str(DEFAULT_DATE_STR), bubble))>>

\* DateFilterComponent.applyDefaults(bubble): the call it makes after it has
\* selected the default filter type
applyDefaults(bubble) == <<[fn |-> "applyDefaultDates", bubble |-> bubble]>>

\* DateFilterComponent.clearDates
clearDates == <<[fn |-> "applyDefaultDates", bubble |-> TRUE]>>

\* DateFilterComponent.resetFilter
resetFilter ==
    <<[fn |-> "applyDefaults", bubble |-> TRUE], [fn |-> "synchGUI"]>>

\* DateFilterComponent.getModel
getModel(type, startText, endText) ==
    LET filterTypeVal == ParseInt(type)
    IN IF Truthy(isFilterActive(type, startText, endText))
       THEN FilterModel(Num(filterTypeVal),
                        IF filterTypeVal # FT_UNKNOWN
                        THEN Str(startText) ELSE Undefined,
                        IF filterTypeVal = FT_BETWEEN
                        THEN Str(endText) ELSE Undefined)
       ELSE Null

\* filterTypeDefs[..]["ftPrefix"] of the filter types that have one
ftPrefix(filterTypeVal) ==
    CASE filterTypeVal = FT_ON -> <<"=", "=">>
      [] filterTypeVal = FT_BEFORE -> <<"<">>
      [] filterTypeVal = FT_AFTER -> <<">">>
      [] filterTypeVal = FT_NOT -> <<"!", "=">>

\* DateFilterComponent.getModelAsString(model); the dates are the texts of
\* the filter's own date controls
getModelAsString(model, startText, endText) ==
    IF ~Truthy(model) THEN Null
    ELSE IF model.ftype = Num(FT_UNKNOWN)
         THEN Str(<<"U", "n", "k", "n", "o", "w", "n">>)
    ELSE IF model.ftype \in {Num(FT_ON), Num(FT_BEFORE), Num(FT_AFTER),
                            Num(FT_NOT)}
         THEN Str(ftPrefix(model.ftype.val) \o <<" ">> \o startText)
    ELSE IF model.ftype = Num(FT_BETWEEN)
         THEN Str(<<"(">> \o startText \o <<",", " ">> \o endText \o <<")">>)
    ELSE Null

\* DateFilterComponent.updateModel(model), model not null: filterTypeVal
\* after the "hack" that resets the type of a Between filter
updateModelTypeVal(type, model) ==
    IF /\ ParseInt(type) = FT_BETWEEN
       /\ ~Truthy(model.ftype)
       /\ Truthy(model.start_date)
       /\ ~Truthy(model.end_date)
    THEN Num(DEFAULT_TYPE_VALUE)
    ELSE model.ftype

\* getFilterTypeIdx(filterVal): the index of the filter type in
\* filterTypeDefs (which lists the types in the order of their values), or
\* -1
getFilterTypeIdx(filterVal) ==
    IF filterVal.type = "number" /\ filterVal.val \in filterTypeDefs
    THEN filterVal.val
    ELSE 0 - 1

\* DateFilterComponent.updateModel(model): the value of the filter type
\* dropdown afterwards
updateModelFilterType(type, model) ==
    IF Truthy(model)
    THEN LET filterTypeIndex ==
                 getFilterTypeIdx(updateModelTypeVal(type, model))
         IN IF filterTypeIndex # 0 - 1
            THEN NumberToString(filterTypeIndex)
            ELSE type
    ELSE type

\* updateModel letting the change events of the date controls bubble
updateModelBubbles(type, model) ==
    IF Truthy(model)
    THEN LET filterTypeVal == updateModelTypeVal(type, model)
         IN (IF filterTypeVal # Num(FT_UNKNOWN)
             THEN <<On("start", setDate(model.start_date, TRUE))>>
             ELSE <<>>)
            \o (IF filterTypeVal = Num(FT_BETWEEN)
                THEN <<On("end", setDate(model.end_date, TRUE))>>
                ELSE <<>>)
    ELSE <<[fn |-> "applyDefaults", bubble |-> TRUE]>>

\* DateFilterComponent.updateModel(model): the calls it makes
updateModel(type, model) ==
    IF Truthy(model)
    THEN LET filterTypeVal == updateModelTypeVal(type, model)
         IN (IF filterTypeVal # Num(FT_UNKNOWN)
             THEN <<On("start", setDate(model.start_date, FALSE))>>
             ELSE <<>>)
            \o (IF filterTypeVal = Num(FT_BETWEEN)
                THEN <<On("end", setDate(model.end_date, FALSE))>>
                ELSE <<>>)
    ELSE <<[fn |-> "applyDefaults", bubble |-> FALSE]>>

\* setModel without the call of synchGUI
setModelNoSynchGUI(model) ==
    <<[fn |-> "updateModel", model |-> model], [fn |-> "reapplyFilter"]>>

\* DateFilterComponent.setModel(model)
setModel(model) ==
    <<[fn |-> "updateModel", model |-> model], [fn |-> "synchGUI"],
      [fn |-> "reapplyFilter"]>>

\* The listeners a bubbling change event of a date control reaches after
\* the control's own: reapplyFilter on the GUI of the filter's start and end
\* date controls, filterChanged on the root of the floating filter
changeListeners(control) ==
    IF control \in {"start", "end"}
    THEN <<[fn |-> "reapplyFilter"]>>
    ELSE <<[fn |-> "filterChanged"]>>

\* DateFloatingFilterComponent.filterChanged; parentModel is
\* this.filterParams.currentParentModel()
filterChanged(parentModel, editableText) ==
    LET currentModel == IF Truthy(parentModel)
                        THEN parentModel
                        ELSE FilterModel(Undefined, Undefined, Undefined)
    IN <<[fn |-> "setModel",
          model |-> [currentModel EXCEPT !.start_date = Str(editableText)]]>>

\* DateFloatingFilterComponent.onParentModelChanged(parentModel)
onParentModelChanged(parentModel) ==
    <<[fn |-> "configureGUI", filterModel |-> parentModel]>>

\* The editable control is hidden for these models
configureGUIReadonly(filterModel) ==
    /\ filterModel.type \notin {"null", "undefined"}
    /\ filterModel.ftype \in {Num(FT_BETWEEN), Num(FT_UNKNOWN)}

\* configureGUI letting the change event of the editable control bubble
configureGUIBubbles(filterModel) ==
    IF filterModel.type \notin {"null", "undefined"}
    THEN IF configureGUIReadonly(filterModel)
         THEN <<>>
         ELSE <<On("editable", setDate(filterModel.start_date, TRUE))>>
    ELSE <<On("editable", setDate(Str(<<>>), TRUE))>>

\* DateFloatingFilterComponent.configureGUI(filterModel): the call it makes
configureGUI(filterModel) ==
    IF filterModel.type \notin {"null", "undefined"}
    THEN IF configureGUIReadonly(filterModel)
         THEN <<>>
         ELSE <<On("editable", setDate(filterModel.start_date, FALSE))>>
    ELSE <<On("editable", setDate(Str(<<>>), FALSE))>>

---------------------------------------------------------------------------
(* Inputs *)

\* The characters texts are built from: some digits, the separator and one
\* character that is neither ("a").
Alphabet == {"0", "1", "2", "3", DATE_COMP_SEP, "a"}

Texts == UNION {[1..n -> Alphabet] : n \in 0..MaxTextLen}

YearInputs == ((0 - MaxYearsBelowZero)..MaxYear) \cup {1900, 2000, 2001, 2004}
MonthInputs == (MONTH_MIN - 2)..(MONTH_MAX + 2)
DayInputs == (0 - 1)..MaxDayInput

NumsOrUndefined(S) == {Num(n) : n \in S} \cup {Undefined}

DateObjects(Y, M, D) ==
    {DateObject(y, m, d) : y \in NumsOrUndefined(Y),
                           m \in NumsOrUndefined(M),
                           d \in NumsOrUndefined(D)}

\* Dates handed to getDateString: null, undefined and objects with any
\* subset of the properties, 0 included among the values
FormatYears == (0..MaxFormatYear) \cup {2020}
FormatDates ==
    DateObjects(FormatYears, 0..(MONTH_MAX + 1), 0..MaxDayInput)
        \cup {Null, Undefined}

\* Dates handed to compareDates: null and objects with any subset of the
\* properties, the values within the ranges of the data model
CompareDates == DateObjects(1..MaxCompareValue, 1..MaxCompareValue,
                            1..MaxCompareValue) \cup {Null}

\* Date filter inputs.  The texts of the date controls: the canonical texts
\* of the dates of some years, the empty text, a text that is no date, a
\* date that is not on the calendar and a month without padding.
FilterYears == 2019..(2018 + MaxFilterYears)
FilterMonths == {6, 7}
FilterDays == {15, 16}

FilterTexts ==
    {getDateCompString(Num(y), m, d) :
         y \in FilterYears,
         m \in NumsOrUndefined(FilterMonths),
         d \in NumsOrUndefined(FilterDays)}
    \cup {<<>>,
          <<"2", "0", "a">>,
          <<"2", "0", "2", "0", "-", "6">>,
          <<"2", "0", "2", "1", "-", "0", "2", "-", "3", "0">>}

\* The dates of the rows: null, undefined and objects with any subset of the
\* properties
RowDates == DateObjects(FilterYears, FilterMonths, FilterDays)
                \cup {Null, Undefined}

FilterTypeValues == {<<DigitChar(t)>> : t \in filterTypeDefs}

\* Date control inputs.  The texts typed into the date input: the empty
\* text, a year, a year and month, a full date, a text that is no date and a
\* date that is not on the calendar.  The dates selected in the picker: full
\* dates in the picker's dateFormat "Y-m-d".
ControlTexts ==
    {<<>>,
     <<"2", "0", "2", "0">>,
     <<"2", "0", "2", "0", "-", "0", "6">>,
     <<"2", "0", "2", "0", "-", "0", "6", "-", "1", "5">>,
     <<"2", "0", "a">>,
     <<"2", "0", "2", "1", "-", "0", "2", "-", "3", "0">>}

PickerDates ==
    {<<"2", "0", "2", "0", "-", "0", "6", "-", "1", "5">>,
     <<"2", "0", "2", "0", "-", "0", "6", "-", "1", "6">>}

\* Filter and floating filter inputs.  The texts typed into the date
\* controls: the empty text, a year and a text that is no date.  The models
\* handed to setModel: null and the objects with any filter type or none,
\* and any of the texts or none as start and end date.
GuiTexts == {<<>>, <<"2", "0", "2", "0">>, <<"2", "0", "a">>}

GuiModels ==
    {FilterModel(ftype, startDate, endDate) :
         ftype \in NumsOrUndefined(filterTypeDefs),
         startDate \in {Str(text) : text \in GuiTexts} \cup {Undefined},
         endDate \in {Str(text) : text \in GuiTexts} \cup {Undefined}}
    \cup {Null}

ParserIdle ==
    /\ dateString = <<>>
    /\ date = [v \in BOOLEAN |-> Undefined]
    /\ reparsed = Undefined

ValidatorIdle ==
    /\ year = Undefined
    /\ month = Undefined
    /\ day = Undefined
    /\ valid = TRUE

FormatterIdle == dateArg = Undefined

ComparatorIdle ==
    /\ refDate = Null
    /\ compDate = Null
    /\ comparison = 0

FilterIdle ==
    /\ filterType = <<"0">>
    /\ startDateInput = <<>>
    /\ endDateInput = <<>>
    /\ rowDate = Undefined
    /\ pass = Bool(TRUE)

ControlIdle ==
    /\ inputValue = <<>>
    /\ invalidData = FALSE
    /\ pickerDate = <<>>
    /\ pickerView = <<>>
    /\ calls = <<>>
    /\ chain = <<>>

EditorIdle ==
    /\ editorValue = <<>>
    /\ cancelAfterEnd = FALSE

GuiIdle ==
    /\ hideStartDate = FALSE
    /\ hideEndDate = FALSE
    /\ floatingValue = <<>>
    /\ editableVisible = FALSE
    /\ readonlyPlaceholder = Null

---------------------------------------------------------------------------
(* Parser / formatter calls on one text *)

Init ==
    /\ pc = "input"
    /\ dateString \in Texts
    /\ date = [v \in BOOLEAN |-> Undefined]
    /\ formatted = Undefined
    /\ reparsed = Undefined
    /\ year = Undefined
    /\ month = Undefined
    /\ day = Undefined
    /\ valid = TRUE
    /\ FormatterIdle
    /\ ComparatorIdle
    /\ FilterIdle
    /\ ControlIdle
    /\ EditorIdle
    /\ GuiIdle

\* date = parseDate(dateString, validate)
ParseDate(validate) ==
    /\ pc = "input"
    /\ date[validate] = Undefined
    /\ date' = [date EXCEPT ![validate] = parseDate(dateString, validate)]
    /\ UNCHANGED <<pc, dateString, formatted, reparsed, validatorVars, formatterVars, comparatorVars, filterVars, controlVars, editorVars, guiVars>>

\* formatted = getDateString(date), on the result of the default mode
GetDateString ==
    /\ pc = "input"
    /\ date[TRUE] # Undefined
    /\ date[FALSE] # Undefined
    /\ formatted' = Str(getDateString(date[TRUE]))
    /\ pc' = "formatted"
    /\ UNCHANGED <<dateString, date, reparsed, validatorVars, formatterVars, comparatorVars, filterVars, controlVars, editorVars, guiVars>>

\* reparsed = parseDate(formatted)
ReparseDate ==
    /\ pc = "formatted"
    /\ reparsed' = parseDate(formatted.val, TRUE)
    /\ pc' = "reparsed"
    /\ UNCHANGED <<dateString, date, formatted, validatorVars, formatterVars, comparatorVars, filterVars, controlVars, editorVars, guiVars>>

Next ==
    \/ \E validate \in BOOLEAN : ParseDate(validate)
    \/ GetDateString
    \/ ReparseDate

Spec == Init /\ [][Next]_vars

---------------------------------------------------------------------------
(* Validator calls on one triple of components *)

InitValidator ==
    /\ pc = "args"
    /\ year \in NumsOrUndefined(YearInputs)
    /\ month \in NumsOrUndefined(MonthInputs)
    /\ day \in NumsOrUndefined(DayInputs)
    /\ valid = TRUE
    /\ dateString = <<>>
    /\ date = [v \in BOOLEAN |-> Undefined]
    /\ formatted = Undefined
    /\ reparsed = Undefined
    /\ FormatterIdle
    /\ ComparatorIdle
    /\ FilterIdle
    /\ ControlIdle
    /\ EditorIdle
    /\ GuiIdle

\* valid = areDateCompsValid(year, month, day)
AreDateCompsValid ==
    /\ pc = "args"
    /\ valid' = areDateCompsValid(year, month, day)
    /\ pc' = "validated"
    /\ UNCHANGED <<year, month, day, parserVars, formatterVars, comparatorVars, filterVars, controlVars, editorVars, guiVars>>

NextValidator == AreDateCompsValid

SpecValidator == InitValidator /\ [][NextValidator]_vars

---------------------------------------------------------------------------
(* Formatter calls on one date *)

InitFormatter ==
    /\ pc = "date"
    /\ dateArg \in FormatDates
    /\ formatted = Undefined
    /\ ParserIdle
    /\ ValidatorIdle
    /\ ComparatorIdle
    /\ FilterIdle
    /\ ControlIdle
    /\ EditorIdle
    /\ GuiIdle

\* formatted = getDateString(dateArg)
FormatDate ==
    /\ pc = "date"
    /\ formatted' = Str(getDateString(dateArg))
    /\ pc' = "dateFormatted"
    /\ UNCHANGED <<dateString, date, reparsed, validatorVars, formatterVars,
                   comparatorVars, filterVars, controlVars, editorVars, guiVars>>

NextFormatter == FormatDate

SpecFormatter == InitFormatter /\ [][NextFormatter]_vars

---------------------------------------------------------------------------
(* Comparator calls on one pair of dates *)

InitComparator ==
    /\ pc = "dates"
    /\ refDate \in CompareDates
    /\ compDate \in CompareDates
    /\ comparison = 0
    /\ formatted = Undefined
    /\ ParserIdle
    /\ ValidatorIdle
    /\ FormatterIdle
    /\ FilterIdle
    /\ ControlIdle
    /\ EditorIdle
    /\ GuiIdle

\* comparison = compareDates(refDate, compDate)
CompareDatesCall ==
    /\ pc = "dates"
    /\ comparison' = compareDates(refDate, compDate)
    /\ pc' = "compared"
    /\ UNCHANGED <<refDate, compDate, parserVars, validatorVars,
                   formatterVars, filterVars, controlVars, editorVars, guiVars>>

NextComparator == CompareDatesCall

SpecComparator == InitComparator /\ [][NextComparator]_vars

---------------------------------------------------------------------------
(* Date filter: doesFilterPass on one row *)

InitFilter ==
    /\ pc = "filter"
    /\ filterType \in FilterTypeValues
    /\ startDateInput \in FilterTexts
    /\ endDateInput \in FilterTexts
    /\ rowDate \in RowDates
    /\ pass = Bool(TRUE)
    /\ formatted = Undefined
    /\ ParserIdle
    /\ ValidatorIdle
    /\ FormatterIdle
    /\ ComparatorIdle
    /\ ControlIdle
    /\ EditorIdle
    /\ GuiIdle

\* pass = doesFilterPass(row)
DoesFilterPass ==
    /\ pc = "filter"
    /\ pass' = doesFilterPass(filterType, startDateInput, endDateInput, rowDate)
    /\ pc' = "filtered"
    /\ UNCHANGED <<filterType, startDateInput, endDateInput, rowDate,
                   parserVars, validatorVars, formatterVars, comparatorVars,
                   controlVars, editorVars, guiVars>>

NextFilter == DoesFilterPass

SpecFilter == InitFilter /\ [][NextFilter]_vars

---------------------------------------------------------------------------
(* Cell editor: the end of an edit *)

InitEditor ==
    /\ pc = "editing"
    /\ editorValue \in Texts
    /\ cancelAfterEnd = FALSE
    /\ formatted = Undefined
    /\ ParserIdle
    /\ ValidatorIdle
    /\ FormatterIdle
    /\ ComparatorIdle
    /\ FilterIdle
    /\ ControlIdle
    /\ GuiIdle

\* cancelAfterEnd = isCancelAfterEnd()
IsCancelAfterEnd ==
    /\ pc = "editing"
    /\ cancelAfterEnd' = isCancelAfterEnd(editorValue)
    /\ pc' = "editEnded"
    /\ UNCHANGED <<editorValue, parserVars, validatorVars, formatterVars,
                   comparatorVars, filterVars, controlVars, guiVars>>

NextEditor == IsCancelAfterEnd

SpecEditor == InitEditor /\ [][NextEditor]_vars

---------------------------------------------------------------------------
(* Date control: user actions and the handlers they start *)

InitControl ==
    /\ pc = "control"
    /\ ControlIdle
    /\ formatted = Undefined
    /\ ParserIdle
    /\ ValidatorIdle
    /\ FormatterIdle
    /\ ComparatorIdle
    /\ FilterIdle
    /\ EditorIdle
    /\ GuiIdle

otherVars == <<pc, parserVars, validatorVars, formatterVars, comparatorVars,
               filterVars, editorVars, guiVars>>

\* The control is at rest: every handler of the last user action has run
AtRest == pc = "control" /\ calls = <<>>

\* The next call to run is a call of fn
Running(fn) ==
    /\ pc = "control"
    /\ calls # <<>>
    /\ Head(calls).fn = fn
    /\ Len(chain) < MaxChain
    /\ chain' = Append(chain, fn)

\* The user selects a date in the picker: flatpickr runs the onChange hook
UserPicksDate(dateStr) ==
    /\ AtRest
    /\ pickerDate' = dateStr
    /\ pickerView' = dateStr
    /\ calls' = <<[fn |-> "onDatePicked", dateStr |-> Str(dateStr)]>>
    /\ chain' = <<"pick">>
    /\ UNCHANGED <<inputValue, invalidData, otherVars>>

\* The user edits the text of the date input: the browser dispatches a
\* change event on it
UserEditsText(text) ==
    /\ AtRest
    /\ inputValue' = text
    /\ calls' = <<[fn |-> "onDateInputChanged", bubbles |-> TRUE]>>
    /\ chain' = <<"edit">>
    /\ UNCHANGED <<invalidData, pickerDate, pickerView, otherVars>>

\* The owner of the control calls setDate(dateStr, bubble)
SetDate(dateStr, bubble) ==
    /\ AtRest
    /\ calls' = <<setDate(dateStr, bubble)>>
    /\ chain' = <<"setDate">>
    /\ UNCHANGED <<inputValue, invalidData, pickerDate, pickerView, otherVars>>

\* The owner of the control calls synchGUI()
SynchGUI ==
    /\ AtRest
    /\ calls' = <<synchGUI>>
    /\ chain' = <<"synchGUI">>
    /\ UNCHANGED <<inputValue, invalidData, pickerDate, pickerView, otherVars>>

OnDatePicked ==
    /\ Running("onDatePicked")
    /\ calls' = <<onDatePicked(Head(calls).dateStr)>> \o Tail(calls)
    /\ UNCHANGED <<inputValue, invalidData, pickerDate, pickerView, otherVars>>

ProcessDateUpdate ==
    /\ Running("processDateUpdate")
    /\ inputValue' = processDateUpdateValue(inputValue, Head(calls).dateStr)
    /\ calls' = processDateUpdateEvents(Head(calls).raiseEvent,
                                        Head(calls).bubbleEvent)
                    \o Tail(calls)
    /\ UNCHANGED <<invalidData, pickerDate, pickerView, otherVars>>

OnDateInputChanged ==
    /\ Running("onDateInputChanged")
    /\ invalidData' = onDateInputChangedInvalid(inputValue)
    /\ calls' = <<onDateInputChanged(inputValue)>> \o Tail(calls)
    /\ UNCHANGED <<inputValue, pickerDate, pickerView, otherVars>>

DatePickerSetDate ==
    /\ Running("datePicker.setDate")
    /\ pickerDate' = Head(calls).dateStr
    /\ pickerView' = Head(calls).dateStr
    /\ calls' = datePickerOnChange(Head(calls).dateStr,
                                   Head(calls).triggerChange)
                    \o Tail(calls)
    /\ UNCHANGED <<inputValue, invalidData, otherVars>>

DatePickerJumpToDate ==
    /\ Running("datePicker.jumpToDate")
    /\ pickerView' = Head(calls).dateStr
    /\ calls' = datePickerOnChange(Head(calls).dateStr,
                                   Head(calls).triggerChange)
                    \o Tail(calls)
    /\ UNCHANGED <<inputValue, invalidData, pickerDate, otherVars>>

NextControl ==
    \/ \E dateStr \in PickerDates : UserPicksDate(dateStr)
    \/ \E text \in ControlTexts : UserEditsText(text)
    \/ \E text \in ControlTexts, bubble \in BOOLEAN :
           SetDate(Str(text), bubble)
    \/ SynchGUI
    \/ OnDatePicked
    \/ ProcessDateUpdate
    \/ OnDateInputChanged
    \/ DatePickerSetDate
    \/ DatePickerJumpToDate

SpecControl == InitControl /\ [][NextControl]_vars

---------------------------------------------------------------------------
(* Date filter and floating filter: operations and the handlers they start *)

\* The floating filter is initialised while its parent filter does not exist
\* yet (currentParentModel() is null); then the filter is initialised, which
\* ends with resetFilter().
InitGui ==
    /\ pc = "gui"
    /\ filterType = NumberToString(FT_ON)
    /\ startDateInput = <<>>
    /\ endDateInput = <<>>
    /\ hideStartDate = FALSE
    /\ hideEndDate = FALSE
    /\ floatingValue = <<>>
    /\ editableVisible = TRUE
    /\ readonlyPlaceholder = Str(<<>>)
    /\ calls = <<[fn |-> "configureGUI", filterModel |-> Null],
                 [fn |-> "resetFilter"]>>
    /\ chain = <<"init">>
    /\ rowDate = Undefined
    /\ pass = Bool(TRUE)
    /\ inputValue = <<>>
    /\ invalidData = FALSE
    /\ pickerDate = <<>>
    /\ pickerView = <<>>
    /\ formatted = Undefined
    /\ ParserIdle
    /\ ValidatorIdle
    /\ FormatterIdle
    /\ ComparatorIdle
    /\ EditorIdle

guiOtherVars == <<pc, parserVars, validatorVars, formatterVars,
                  comparatorVars, editorVars, rowDate, pass, inputValue,
                  invalidData, pickerDate, pickerView>>

filterGuiVars == <<filterType, startDateInput, endDateInput, hideStartDate,
                   hideEndDate>>
floatingGuiVars == <<floatingValue, editableVisible, readonlyPlaceholder>>

\* Every handler of the last operation has run
GuiAtRest == pc = "gui" /\ calls = <<>>

\* The entry of `chain' for a call
Label(call) ==
    IF "control" \in DOMAIN call
    THEN CASE call.control = "start" /\ call.fn = "processDateUpdate" ->
                  "start.processDateUpdate"
           [] call.control = "start" /\ call.fn = "onDateInputChanged" ->
                  "start.onDateInputChanged"
           [] call.control = "end" /\ call.fn = "processDateUpdate" ->
                  "end.processDateUpdate"
           [] call.control = "end" /\ call.fn = "onDateInputChanged" ->
                  "end.onDateInputChanged"
           [] call.control = "editable" /\ call.fn = "processDateUpdate" ->
                  "editable.processDateUpdate"
           [] call.control = "editable" /\ call.fn = "onDateInputChanged" ->
                  "editable.onDateInputChanged"
    ELSE call.fn

\* The next call to run is a call of fn
GuiRunning(fn) ==
    /\ pc = "gui"
    /\ calls # <<>>
    /\ Head(calls).fn = fn
    /\ Len(chain) < MaxGuiChain
    /\ chain' = Append(chain, Label(Head(calls)))

\* The handler makes the calls made and changes no variable itself
GuiCalls(made) ==
    /\ calls' = made \o Tail(calls)
    /\ UNCHANGED <<filterGuiVars, floatingGuiVars, guiOtherVars>>

\* The user selects a filter type: the browser dispatches a change event on
\* the dropdown
UserSelectsFilterType(type) ==
    /\ GuiAtRest
    /\ filterType' = type
    /\ calls' = <<[fn |-> "filterTypeChanged"]>>
    /\ chain' = <<"user: filter type">>
    /\ UNCHANGED <<startDateInput, endDateInput, hideStartDate, hideEndDate,
                   floatingGuiVars, guiOtherVars>>

UserClicksClear ==
    /\ GuiAtRest
    /\ calls' = <<[fn |-> "clearDates"]>>
    /\ chain' = <<"user: clear">>
    /\ UNCHANGED <<filterGuiVars, floatingGuiVars, guiOtherVars>>

UserClicksReset ==
    /\ GuiAtRest
    /\ calls' = <<[fn |-> "resetFilter"]>>
    /\ chain' = <<"user: reset">>
    /\ UNCHANGED <<filterGuiVars, floatingGuiVars, guiOtherVars>>

\* The grid calls setModel(model)
GridSetsModel(model) ==
    /\ GuiAtRest
    /\ calls' = <<[fn |-> "setModel", model |-> model]>>
    /\ chain' = <<"grid: setModel">>
    /\ UNCHANGED <<filterGuiVars, floatingGuiVars, guiOtherVars>>

\* The user edits the text of a date control: the browser dispatches a
\* bubbling change event on its date input
UserEditsDate(control, text) ==
    /\ GuiAtRest
    /\ startDateInput' = IF control = "start" THEN text ELSE startDateInput
    /\ endDateInput' = IF control = "end" THEN text ELSE endDateInput
    /\ floatingValue' = IF control = "editable" THEN text ELSE floatingValue
    /\ calls' = <<On(control, [fn |-> "onDateInputChanged",
                               bubbles |-> TRUE])>>
    /\ chain' = <<IF control = "editable"
                  THEN "user: floating date"
                  ELSE "user: filter date">>
    /\ UNCHANGED <<filterType, hideStartDate, hideEndDate, editableVisible,
                   readonlyPlaceholder, guiOtherVars>>

FilterTypeChanged == GuiRunning("filterTypeChanged") /\ GuiCalls(filterTypeChanged)

\* DateFilterComponent.synchGUI
FilterSynchGUI ==
    /\ GuiRunning("synchGUI")
    /\ hideStartDate' = (ParseInt(filterType) = FT_UNKNOWN)
    /\ hideEndDate' = (ParseInt(filterType) # FT_BETWEEN)
    /\ calls' = Tail(calls)
    /\ UNCHANGED <<filterType, startDateInput, endDateInput, floatingGuiVars,
                   guiOtherVars>>

ReapplyFilter == GuiRunning("reapplyFilter") /\ GuiCalls(reapplyFilter)

\* filterParams.filterChangedCallback(): the grid recalculates the filter
\* and calls onParentModelChanged of the floating filter with the filter's
\* getModel()
FilterChangedCallback ==
    /\ GuiRunning("filterChangedCallback")
    /\ GuiCalls(<<[fn |-> "onParentModelChanged",
                   parentModel |-> getModel(filterType, startDateInput,
                                            endDateInput)]>>)

ApplyDefaultDates ==
    /\ GuiRunning("applyDefaultDates")
    /\ GuiCalls(applyDefaultDates(Head(calls).bubble))

ApplyDefaults ==
    /\ GuiRunning("applyDefaults")
    /\ filterType' = NumberToString(getFilterTypeIdx(Num(DEFAULT_TYPE_VALUE)))
    /\ calls' = applyDefaults(Head(calls).bubble) \o Tail(calls)
    /\ UNCHANGED <<startDateInput, endDateInput, hideStartDate, hideEndDate,
                   floatingGuiVars, guiOtherVars>>

ClearDates == GuiRunning("clearDates") /\ GuiCalls(clearDates)

ResetFilter == GuiRunning("resetFilter") /\ GuiCalls(resetFilter)

UpdateModel ==
    /\ GuiRunning("updateModel")
    /\ filterType' = updateModelFilterType(filterType, Head(calls).model)
    /\ calls' = updateModel(filterType, Head(calls).model) \o Tail(calls)
    /\ UNCHANGED <<startDateInput, endDateInput, hideStartDate, hideEndDate,
                   floatingGuiVars, guiOtherVars>>

FilterSetModel ==
    /\ GuiRunning("setModel")
    /\ GuiCalls(setModel(Head(calls).model))

\* DateControl.processDateUpdate on one of the three controls
ControlProcessDateUpdate ==
    /\ GuiRunning("processDateUpdate")
    /\ LET call == Head(calls)
           value(control, text) ==
               IF call.control = control
               THEN processDateUpdateValue(text, call.dateStr)
               ELSE text
           events == processDateUpdateEvents(call.raiseEvent,
                                             call.bubbleEvent)
       IN /\ startDateInput' = value("start", startDateInput)
          /\ endDateInput' = value("end", endDateInput)
          /\ floatingValue' = value("editable", floatingValue)
          /\ calls' = [i \in 1..Len(events) |-> On(call.control, events[i])]
                          \o Tail(calls)
    /\ UNCHANGED <<filterType, hideStartDate, hideEndDate, editableVisible,
                   readonlyPlaceholder, guiOtherVars>>

\* The change event on the date input of one of the three controls: the
\* control's onDateInputChanged (which synchronises its date picker, see the
\* date control above) and, when the event bubbles, the listeners above it
ControlOnDateInputChanged ==
    /\ GuiRunning("onDateInputChanged")
    /\ GuiCalls(IF Head(calls).bubbles
                THEN changeListeners(Head(calls).control)
                ELSE <<>>)

FilterChanged ==
    /\ GuiRunning("filterChanged")
    /\ GuiCalls(filterChanged(getModel(filterType, startDateInput,
                                       endDateInput),
                              floatingValue))

OnParentModelChanged ==
    /\ GuiRunning("onParentModelChanged")
    /\ GuiCalls(onParentModelChanged(Head(calls).parentModel))

ConfigureGUI ==
    /\ GuiRunning("configureGUI")
    /\ LET filterModel == Head(calls).filterModel
       IN /\ readonlyPlaceholder' =
                 IF filterModel.type \notin {"null", "undefined"}
                 THEN getModelAsString(filterModel, startDateInput,
                                       endDateInput)
                 ELSE Str(<<>>)
          /\ editableVisible' = ~configureGUIReadonly(filterModel)
          /\ calls' = configureGUI(filterModel) \o Tail(calls)
    /\ UNCHANGED <<floatingValue, filterGuiVars, guiOtherVars>>

NextGui ==
    \/ \E type \in FilterTypeValues : UserSelectsFilterType(type)
    \/ UserClicksClear
    \/ UserClicksReset
    \/ \E model \in GuiModels : GridSetsModel(model)
    \/ \E control \in {"start", "end", "editable"}, text \in GuiTexts :
           UserEditsDate(control, text)
    \/ FilterTypeChanged
    \/ FilterSynchGUI
    \/ ReapplyFilter
    \/ FilterChangedCallback
    \/ ApplyDefaultDates
    \/ ApplyDefaults
    \/ ClearDates
    \/ ResetFilter
    \/ UpdateModel
    \/ FilterSetModel
    \/ ControlProcessDateUpdate
    \/ ControlOnDateInputChanged
    \/ FilterChanged
    \/ OnParentModelChanged
    \/ ConfigureGUI

SpecGui == InitGui /\ [][NextGui]_vars

---------------------------------------------------------------------------
(* Vocabulary of the properties, stated independently of the code *)

RECURSIVE DecimalValue(_)
DecimalValue(s) ==
    IF s = <<>>
    THEN 0
    ELSE 10 * DecimalValue(SubSeq(s, 1, Len(s) - 1)) + DigitValue(s[Len(s)])

AllDigits(s) == \A i \in 1..Len(s) : s[i] \in Digits

\* a positive decimal numeral without leading zero
YearPattern(s) == s # <<>> /\ AllDigits(s) /\ s[1] # "0"

\* "1".."12", optionally zero-padded to two digits
MonthPattern(s) ==
    Len(s) \in {1, 2} /\ AllDigits(s) /\ DecimalValue(s) \in 1..12

\* "1".."31", optionally zero-padded to two digits
DayPattern(s) ==
    Len(s) \in {1, 2} /\ AllDigits(s) /\ DecimalValue(s) \in 1..31

LeapYear(y) == y % 400 = 0 \/ (y % 4 = 0 /\ y % 100 # 0)

DaysInMonth(y, m) ==
    IF m = 2 /\ LeapYear(y)
    THEN 29
    ELSE <<31, 28, 31, 30, 31, 30, 31, 31, 30, 31, 30, 31>>[m]

\* the separator-delimited parts of the input text
Parts == Split(dateString, "-")

\* the part count and the patterns of all the parts pass
WellFormed ==
    /\ Len(Parts) \in 1..3
    /\ YearPattern(Parts[1])
    /\ Len(Parts) >= 2 => MonthPattern(Parts[2])
    /\ Len(Parts) = 3 => DayPattern(Parts[3])

\* the well-formed input text denotes a real calendar date
RealDate ==
    Len(Parts) = 3 =>
        DecimalValue(Parts[3]) <=
            DaysInMonth(DecimalValue(Parts[1]), DecimalValue(Parts[2]))

IsDate(v) == v.type = "object"
Has(v, key) == key \in DOMAIN v
Called(v) == date[v] # Undefined

IsNumber(v) == v.type = "number"

---------------------------------------------------------------------------
(* C1 *)

\* C1: with validation on, every non-null result of parseDate that has a
\* day has day <= days-in-month(year, month); a text whose parts pass the
\* patterns but name no real calendar date yields null.
C1_ValidatedParseIsRealDate ==
    (Called(TRUE) /\ IsDate(date[TRUE]) /\ Has(date[TRUE], "day")) =>
        date[TRUE].day <= DaysInMonth(date[TRUE].year, date[TRUE].month)

---------------------------------------------------------------------------
(* C2 *)

---------------------------------------------------------------------------
(* C3 *)

\* C3: for year >= 1, month in 1..12 and day >= 1, areDateCompsValid is
\* true exactly when day <= maxDay (table 31,28,31,30,31,30,31,31,30,31,30,31;
\* 29 for February of a year divisible by 400, or by 4 and not by 100);
\* 2000-02-29 and 2004-02-29 are valid, 1900-02-29, 2001-02-29 and
\* 2000-02-30 are not.
C3_ValidIffDayWithinMonth ==
    (/\ pc = "validated"
     /\ IsNumber(year) /\ IsNumber(month) /\ IsNumber(day)
     /\ year.val >= 1 /\ month.val \in 1..12 /\ day.val >= 1) =>
        /\ valid <=> (day.val <= DaysInMonth(year.val, month.val))
        /\ <<year.val, month.val, day.val>> \in
               {<<2000, 2, 29>>, <<2004, 2, 29>>} => valid
        /\ <<year.val, month.val, day.val>> \in
               {<<1900, 2, 29>>, <<2001, 2, 29>>, <<2000, 2, 30>>} => ~valid

\* 29 February of a century leap year has been found valid
C3_Witness ==
    /\ pc = "validated"
    /\ year = Num(2000) /\ month = Num(2) /\ day = Num(29)
    /\ valid

---------------------------------------------------------------------------
(* C4 *)

\* C4: areDateCompsValid returns false for every integer year < 1 (year 0
\* and negative years included), whatever month and day are supplied.
C4_YearBelowOneInvalid ==
    (pc = "validated" /\ IsNumber(year) /\ year.val < 1) => ~valid

---------------------------------------------------------------------------
(* C5 *)

\* C5: for every year >= 1, areDateCompsValid returns false whenever the
\* month is an integer outside 1..12 (month 0 and negative months included).
C5_MonthOutOfRangeInvalid ==
    (/\ pc = "validated"
     /\ IsNumber(year) /\ year.val >= 1
     /\ IsNumber(month) /\ month.val \notin 1..12) => ~valid

---------------------------------------------------------------------------
(* C6 *)

\* C6: parseDate returns null for the empty text, for every text with more
\* than three '-'-separated parts, and for every text whose first part does
\* not match the year pattern.
C6_MalformedYearOrCountRejected ==
    \A v \in BOOLEAN :
        (/\ Called(v)
         /\ \/ dateString = <<>>
            \/ Len(Parts) > 3
            \/ ~YearPattern(Parts[1])) => date[v] = Null

\* a text of four parts, the first three of which match their patterns, has
\* been rejected
C6_Witness ==
    /\ Len(Parts) = 4
    /\ YearPattern(Parts[1]) /\ MonthPattern(Parts[2]) /\ DayPattern(Parts[3])
    /\ date[TRUE] = Null
    /\ date[FALSE] = Null

---------------------------------------------------------------------------
(* C7 *)

\* C7: for a text of two or three parts, parseDate returns null when the
\* second part (the empty string included) does not match the month
\* pattern, or a third part (the empty string included) does not match the
\* day pattern.
C7_MalformedMonthOrDayRejected ==
    \A v \in BOOLEAN :
        (/\ Called(v)
         /\ Len(Parts) \in {2, 3}
         /\ \/ ~MonthPattern(Parts[2])
            \/ Len(Parts) = 3 /\ ~DayPattern(Parts[3])) => date[v] = Null

---------------------------------------------------------------------------
(* C8 *)

\* C8: a non-null result for a text of k parts holds exactly the first k
\* components, each equal to the decimal value of its part.
C8_ExactlyThePartsPresent ==
    \A v \in BOOLEAN :
        (Called(v) /\ IsDate(date[v])) =>
            /\ Len(Parts) \in 1..3
            /\ DOMAIN date[v] =
                   {"type"} \cup {<<"year", "month", "day">>[i] :
                                      i \in 1..Len(Parts)}
            /\ date[v].year = DecimalValue(Parts[1])
            /\ Len(Parts) >= 2 => date[v].month = DecimalValue(Parts[2])
            /\ Len(Parts) = 3 => date[v].day = DecimalValue(Parts[3])

---------------------------------------------------------------------------
(* C9 *)

\* C9: in either validation mode, no date returned by parseDate has a day
\* without a month, and every non-null result has a year >= 1.
C9_NoDayWithoutMonth ==
    \A v \in BOOLEAN :
        (Called(v) /\ date[v] # Null) =>
            /\ IsDate(date[v])
            /\ Has(date[v], "day") => Has(date[v], "month")
            /\ Has(date[v], "year") /\ date[v].year >= 1

\* a text with a day part but an empty month part has been parsed, in both
\* modes, to a date holding the year alone
C9_Witness ==
    /\ dateString = <<"2", "-", "-", "3">>
    /\ date[TRUE] = [type |-> "object", year |-> 2]
    /\ date[FALSE] = [type |-> "object", year |-> 2]

---------------------------------------------------------------------------
(* C10 *)

\* C10: skip-validation mode differs from the default only by omitting the
\* Validator step: parseDate(text, false) is non-null exactly when the part
\* count and the patterns pass; whenever parseDate(text, true) is non-null
\* the two modes return equal dates; and on a pattern-passing text that is
\* no real calendar date (2020-02-30) parseDate(text, true) is null while
\* parseDate(text, false) is not.
C10_SkipValidationOnlyOmitsValidator ==
    (Called(TRUE) /\ Called(FALSE)) =>
        /\ date[FALSE] # Null <=> WellFormed
        /\ date[TRUE] # Null => date[TRUE] = date[FALSE]
        /\ (WellFormed /\ ~RealDate) =>
               (date[TRUE] = Null /\ date[FALSE] # Null)

---------------------------------------------------------------------------
(* Vocabulary of the formatter and comparator properties *)

\* the data-model invariant: a year >= 1, an optional month in 1..12, an
\* optional day in 1..31, a day only with a month
PartialDate(d) ==
    /\ IsDate(d)
    /\ Has(d, "year") /\ d.year >= 1
    /\ Has(d, "month") => d.month \in 1..12
    /\ Has(d, "day") => (d.day \in 1..31 /\ Has(d, "month"))

\* the '-'-separated pieces of the formatted text
Pieces == Split(formatted.val, "-")

TwoDigitsOf(piece, n) ==
    Len(piece) = 2 /\ AllDigits(piece) /\ DecimalValue(piece) = n

Components(d) == DOMAIN d \ {"type"}

\* every component of r is a component of c with the same value, and c has
\* more components
StrictPrefix(r, c) ==
    /\ PartialDate(r) /\ PartialDate(c)
    /\ Components(r) # Components(c)
    /\ \A k \in Components(r) : k \in Components(c) /\ r[k] = c[k]

FullDate(d) == PartialDate(d) /\ Has(d, "day")

Earlier(a, b) ==
    \/ a.year < b.year
    \/ a.year = b.year /\ a.month < b.month
    \/ a.year = b.year /\ a.month = b.month /\ a.day < b.day

Sign(n) == IF n < 0 THEN 0 - 1 ELSE IF n > 0 THEN 1 ELSE 0

---------------------------------------------------------------------------
(* C11 *)

---------------------------------------------------------------------------
(* C12 *)

\* C12: for every input of getDateString (a null date, a date with no
\* fields, a day without a month, a month without a year included) the
\* output is empty or starts with the year, and has a day part only when it
\* has a month part; a null date or a date with no fields yields the empty
\* string.
C12_NeverDayWithoutMonth ==
    pc = "dateFormatted" =>
        /\ (~IsDate(dateArg) \/ Components(dateArg) = {}) =>
               formatted.val = <<>>
        /\ formatted.val # <<>> =>
               /\ Has(dateArg, "year")
               /\ YearPattern(Pieces[1])
               /\ DecimalValue(Pieces[1]) = dateArg.year
               /\ Len(Pieces) <= 3
               /\ Len(Pieces) >= 2 =>
                      (Has(dateArg, "month") /\
                       DecimalValue(Pieces[2]) = dateArg.month)
               /\ Len(Pieces) = 3 =>
                      (Has(dateArg, "day") /\
                       DecimalValue(Pieces[3]) = dateArg.day)

\* a date with a year and a day but no month has been formatted as the year
C12_Witness ==
    /\ pc = "dateFormatted"
    /\ dateArg = [type |-> "object", year |-> 2020, day |-> 5]
    /\ formatted = Str(<<"2", "0", "2", "0">>)

---------------------------------------------------------------------------
(* C13 *)

\* C13: compareDates(null, null) is 0; compareDates(null, d) is -1 and
\* compareDates(d, null) is +1 for every non-null date d, whatever
\* components d has.
C13_NullBoundary ==
    pc = "compared" =>
        /\ (refDate = Null /\ compDate = Null) => comparison = 0
        /\ (refDate = Null /\ compDate # Null) => comparison = 0 - 1
        /\ (refDate # Null /\ compDate = Null) => comparison = 1

\* a date holding a day alone has been compared with a null candidate
C13_Witness ==
    /\ pc = "compared"
    /\ refDate = [type |-> "object", day |-> 2]
    /\ compDate = Null
    /\ comparison = 1

---------------------------------------------------------------------------
(* C14 *)

\* C14: when the reference is strictly less specific than the candidate and
\* all its components equal the candidate's, compareDates(reference,
\* candidate) is 0 and compareDates(candidate, reference) is +1.
C14_DirectionalContainment ==
    pc = "compared" =>
        /\ StrictPrefix(refDate, compDate) => comparison = 0
        /\ StrictPrefix(compDate, refDate) => comparison = 1

\* a full date has been compared, as the reference, with its own year
C14_Witness ==
    /\ pc = "compared"
    /\ refDate = [type |-> "object", year |-> 2, month |-> 2, day |-> 3]
    /\ compDate = [type |-> "object", year |-> 2]
    /\ comparison = 1

---------------------------------------------------------------------------
(* C15 *)

\* C15: for two distinct fully specified dates the result is non-zero, and
\* negative exactly when the reference is chronologically earlier.
C15_FullDatesChronological ==
    (pc = "compared" /\ FullDate(refDate) /\ FullDate(compDate)
        /\ refDate # compDate) =>
        /\ comparison # 0
        /\ comparison < 0 <=> Earlier(refDate, compDate)

\* a date late in one year has been compared with a date early in the next
C15_Witness ==
    /\ pc = "compared"
    /\ refDate = [type |-> "object", year |-> 1, month |-> 3, day |-> 3]
    /\ compDate = [type |-> "object", year |-> 2, month |-> 1, day |-> 1]
    /\ comparison = 0 - 1

---------------------------------------------------------------------------
(* C16 *)

\* C16: unequal years decide the result (the sign of reference.year -
\* candidate.year) whatever months and days are present; with equal years
\* and two unequal months, the months decide it whatever days are present.
C16_FirstDecisiveComponent ==
    (pc = "compared" /\ IsDate(refDate) /\ IsDate(compDate)
        /\ Has(refDate, "year") /\ Has(compDate, "year")) =>
        /\ refDate.year # compDate.year =>
               comparison = Sign(refDate.year - compDate.year)
        /\ (/\ refDate.year = compDate.year
            /\ Has(refDate, "month") /\ Has(compDate, "month")
            /\ refDate.month # compDate.month) =>
               comparison = Sign(refDate.month - compDate.month)

\* a later year without a month has been compared with an earlier full date
C16_Witness ==
    /\ pc = "compared"
    /\ refDate = [type |-> "object", year |-> 3]
    /\ compDate = [type |-> "object", year |-> 1, month |-> 2, day |-> 3]
    /\ comparison = 1

---------------------------------------------------------------------------
(* C17 *)

\* C17: for every pair of arguments, each null or a date satisfying the
\* data-model invariant, compareDates returns -1, 0 or +1.
C17_ResultInRange ==
    (/\ pc = "compared"
     /\ refDate = Null \/ PartialDate(refDate)
     /\ compDate = Null \/ PartialDate(compDate)) =>
        comparison \in {0 - 1, 0, 1}

\* two dates two years apart have been compared
C17_Witness ==
    /\ pc = "compared"
    /\ refDate = [type |-> "object", year |-> 3, month |-> 1]
    /\ compDate = [type |-> "object", year |-> 1, month |-> 1]
    /\ comparison = 1

---------------------------------------------------------------------------
(* Vocabulary of the date filter properties *)

Filtered == pc = "filtered"
FilterTypeIs(t) == filterType = <<DigitChar(t)>>
LetsPass == Truthy(pass)

Year2019 == <<"2", "0", "1", "9">>
Year2020 == <<"2", "0", "2", "0">>
Year2021 == <<"2", "0", "2", "1">>

\* The rows dated {2019}, {2020,6}, {2020,6,15} and {2021}
ScenarioRows ==
    {[type |-> "object", year |-> 2019],
     [type |-> "object", year |-> 2020, month |-> 6],
     [type |-> "object", year |-> 2020, month |-> 6, day |-> 15],
     [type |-> "object", year |-> 2021]}

BetweenScenario(startText, endText) ==
    /\ Filtered
    /\ FilterTypeIs(FT_BETWEEN)
    /\ startDateInput = startText
    /\ endDateInput = endText
    /\ rowDate \in ScenarioRows

---------------------------------------------------------------------------
(* C18 *)

\* C18 as stated: Between with start date 2020 and end date 2021 passes, of
\* the rows dated {2019}, {2020,6}, {2020,6,15} and {2021}, exactly the two
\* rows dated in 2020.
C18_BetweenAdmitsStartYear ==
    BetweenScenario(Year2020, Year2021) => (LetsPass <=> rowDate.year = 2020)

\* C18 amended: both boundaries of Between are exclusive and a year-only
\* start date compares equal to every row of its year, so with start date
\* 2020 and end date 2021 none of the four rows passes; the two rows dated
\* in 2020 are exactly the rows passed with start date 2019 and end date
\* 2021.
C18_BetweenExclusive ==
    /\ BetweenScenario(Year2020, Year2021) => ~LetsPass
    /\ BetweenScenario(Year2019, Year2021) =>
           (LetsPass <=> rowDate.year = 2020)

C18_Witness ==
    /\ BetweenScenario(Year2020, Year2021)
    /\ rowDate = [type |-> "object", year |-> 2020, month |-> 6]
    /\ pass = Bool(FALSE)

---------------------------------------------------------------------------
(* C19 *)

\* C19: for an active 'Not on/in' filter and every row that has a date,
\* doesFilterPass lets the row pass exactly when the comparison of the
\* start date with the row date is not 0, which is exactly when the
\* 'On/in' filter with the same start date rejects the row.
C19_NotIsRejectedByOn ==
    (/\ Filtered
     /\ FilterTypeIs(FT_NOT)
     /\ Truthy(isFilterActive(filterType, startDateInput, endDateInput))
     /\ IsDate(rowDate))
    => /\ LetsPass <=>
              compareDateComponents(parseDateComponents(startDateInput),
                                    rowDate) # 0
       /\ LetsPass <=>
              ~Truthy(doesFilterPass(<<DigitChar(FT_ON)>>, startDateInput,
                                     endDateInput, rowDate))

\* The start date is after the row date: pass is the number 1
C19_Witness ==
    /\ Filtered
    /\ FilterTypeIs(FT_NOT)
    /\ IsDate(rowDate)
    /\ pass = Num(1)

---------------------------------------------------------------------------
(* C20 *)

\* The handlers run so far for the last user action
Handlers == {chain[i] : i \in 2..Len(chain)}
StartedBy(action) == chain # <<>> /\ chain[1] = action
PickerCalls == {"datePicker.setDate", "datePicker.jumpToDate"}

\* C20: a date selected in the picker runs onDatePicked, which updates the
\* text input and is followed by no call of the picker's setDate or
\* jumpToDate and by no other onDatePicked; the calls the text input's
\* change handler makes on the picker have change notification suppressed;
\* and every user action runs at most three handlers (the chain, which
\* starts with the user action, never has more than four entries).
C20_NoFeedbackLoop ==
    /\ StartedBy("pick") =>
           /\ Len(chain) <= 3
           /\ \A i \in 2..Len(chain) :
                  chain[i] = <<"pick", "onDatePicked", "processDateUpdate">>[i]
           /\ (Len(chain) = 3 => calls = <<>> /\ inputValue = pickerDate)
    /\ "onDatePicked" \in Handlers => StartedBy("pick")
    /\ \A i \in 1..Len(calls) :
           calls[i].fn \in PickerCalls => ~calls[i].triggerChange
    /\ Len(chain) <= 4

\* A text that is no date had been typed; then a date was selected in the
\* picker, onDatePicked has put it into the text input and no handler is
\* left to run
C20_Witness ==
    /\ chain = <<"pick", "onDatePicked", "processDateUpdate">>
    /\ calls = <<>>
    /\ inputValue = pickerDate
    /\ inputValue \in PickerDates
    /\ invalidData

---------------------------------------------------------------------------
(* C21 *)

\* every component of r is a component of c with the same value
OnOrIn(r, c) == \A k \in Components(r) : k \in Components(c) /\ r[k] = c[k]

BothPartialDates == PartialDate(refDate) /\ PartialDate(compDate)

---------------------------------------------------------------------------
(* C27 *)

\* C27: for two non-null dates A and B satisfying the data-model invariant,
\* compareDates(A, B) = -1 implies compareDates(B, A) = +1.
C27_BeforeImpliesAfter ==
    (pc = "compared" /\ BothPartialDates /\ comparison = 0 - 1) =>
        compareDates(compDate, refDate) = 1

\* two months of one year have been compared, the earlier as the reference
C27_Witness ==
    /\ pc = "compared"
    /\ refDate = [type |-> "object", year |-> 1, month |-> 2]
    /\ compDate = [type |-> "object", year |-> 1, month |-> 3, day |-> 1]
    /\ comparison = 0 - 1
    /\ compareDates(compDate, refDate) = 1

---------------------------------------------------------------------------
(* C28 *)

\* The dates C reported as after the candidate B
AfterCandidate ==
    {c \in CompareDates : PartialDate(c) /\ compareDates(compDate, c) < 0}

\* C28: for non-null A, B, C satisfying the data-model invariant,
\* compareDates(A, B) < 0 and compareDates(B, C) < 0 imply
\* compareDates(A, C) < 0.
C28_BeforeTransitive ==
    (pc = "compared" /\ BothPartialDates /\ comparison < 0) =>
        \A c \in AfterCandidate : compareDates(refDate, c) < 0

\* A = {1}, B = {2,1} and some C after B, of another granularity than A
C28_Witness ==
    /\ pc = "compared"
    /\ refDate = [type |-> "object", year |-> 1]
    /\ compDate = [type |-> "object", year |-> 2, month |-> 1]
    /\ comparison = 0 - 1
    /\ [type |-> "object", year |-> 2, month |-> 2, day |-> 1] \in AfterCandidate

---------------------------------------------------------------------------
(* C22 *)

\* The text of a date control parses to a date
ParsesToDate(text) == parseDateComponents(text) # Null

FilterActive == Truthy(isFilterActive(filterType, startDateInput, endDateInput))

\* C22: the filter is active exactly when its type is Unknown, or its start
\* date text parses to a date and its type is not Between or its end date
\* text parses to a date too; when the filter is not active, doesFilterPass
\* returns true for every row.
C22_ActiveWhenInputsComplete ==
    Filtered =>
        /\ FilterActive <=>
               \/ FilterTypeIs(FT_UNKNOWN)
               \/ /\ ParsesToDate(startDateInput)
                  /\ ~FilterTypeIs(FT_BETWEEN) \/ ParsesToDate(endDateInput)
        /\ ~FilterActive => pass = Bool(TRUE)

\* Between with an end date text that is no date: the filter is not active
\* and a row dated before the start date passes
C22_Witness ==
    /\ Filtered
    /\ FilterTypeIs(FT_BETWEEN)
    /\ startDateInput = Year2020
    /\ endDateInput = <<"2", "0", "a">>
    /\ rowDate = [type |-> "object", year |-> 2019]
    /\ ~FilterActive
    /\ pass = Bool(TRUE)

---------------------------------------------------------------------------
(* C26 *)

\* The row has no date: the value is absent or an object without fields
NoDate(v) == v \in {Null, Undefined} \/ (IsDate(v) /\ Components(v) = {})

\* C26: with type Unknown, doesFilterPass lets a row pass exactly when the
\* row has no date, whatever the date inputs contain; with an active filter
\* of any other type, a row with an absent date does not pass.
C26_UnknownPassesRowsWithoutDate ==
    Filtered =>
        /\ FilterTypeIs(FT_UNKNOWN) => (LetsPass <=> NoDate(rowDate))
        /\ (/\ ~FilterTypeIs(FT_UNKNOWN)
            /\ FilterActive
            /\ rowDate \in {Null, Undefined}) => ~LetsPass

\* Unknown with a start date typed in: the row with an empty date object
\* passes
C26_Witness ==
    /\ Filtered
    /\ FilterTypeIs(FT_UNKNOWN)
    /\ startDateInput = Year2020
    /\ rowDate = [type |-> "object"]
    /\ pass = Bool(TRUE)

---------------------------------------------------------------------------
(* C29 *)

StartComparison ==
    compareDateComponents(parseDateComponents(startDateInput), rowDate)

\* The filter types, of On/in, Before and After, that let the row pass with
\* the start date of the state
PassingTypes ==
    {t \in {FT_ON, FT_BEFORE, FT_AFTER} :
         Truthy(doesFilterPass(<<DigitChar(t)>>, startDateInput, endDateInput,
                               rowDate))}

\* C29: for a valid start date and a row that has a date, exactly one of
\* On/in, Before and After lets the row pass: On/in when the comparison of
\* the start date with the row date is 0, After when it is < 0, Before when
\* it is > 0.
C29_ExactlyOneOfOnBeforeAfter ==
    (Filtered /\ ParsesToDate(startDateInput) /\ IsDate(rowDate)) =>
        /\ Cardinality(PassingTypes) = 1
        /\ FilterTypeIs(FT_ON) => (LetsPass <=> StartComparison = 0)
        /\ FilterTypeIs(FT_AFTER) => (LetsPass <=> StartComparison < 0)
        /\ FilterTypeIs(FT_BEFORE) => (LetsPass <=> StartComparison > 0)

\* Before 2020-06: the row dated 2020 passes, since a start date with a
\* month is reported as after a row without one; On/in and After reject it
C29_Witness ==
    /\ Filtered
    /\ FilterTypeIs(FT_BEFORE)
    /\ startDateInput = <<"2", "0", "2", "0", "-", "0", "6">>
    /\ rowDate = [type |-> "object", year |-> 2020]
    /\ pass = Bool(TRUE)
    /\ PassingTypes = {FT_BEFORE}

---------------------------------------------------------------------------
(* C25 *)

\* The text is formatted as a date: one to three '-'-separated parts that
\* match the year, month and day patterns
FormattedAsDate(text) ==
    LET parts == Split(text, "-")
    IN /\ text # <<>>
       /\ Len(parts) \in 1..3
       /\ YearPattern(parts[1])
       /\ Len(parts) >= 2 => MonthPattern(parts[2])
       /\ Len(parts) = 3 => DayPattern(parts[3])

\* C25: isDateString(text) is true for every text formatted as a date, also
\* when the date is not on the calendar, and false for every other text,
\* the empty text included; isCancelAfterEnd cancels the edit exactly when
\* isDateString of the entered text is false.
C25_DateStringIffFormattedAsDate ==
    pc = "editEnded" =>
        /\ isDateString(editorValue) <=> FormattedAsDate(editorValue)
        /\ cancelAfterEnd <=> ~isDateString(editorValue)

---------------------------------------------------------------------------
(* Vocabulary of the filter and floating filter properties *)

\* The places of a handler in the chain of the last operation
Places(handler) == {i \in 1..Len(chain) : chain[i] = handler}
Times(handler) == Cardinality(Places(handler))

\* The handlers that change the filter type, the texts of the filter's date
\* controls or their visibility, or handle the controls' change events
FilterUpdates ==
    {"updateModel", "applyDefaults", "applyDefaultDates", "synchGUI",
     "start.processDateUpdate", "start.onDateInputChanged",
     "end.processDateUpdate", "end.onDateInputChanged"}

GuiFilterTypeIs(t) == ParseInt(filterType) = t

---------------------------------------------------------------------------
(* C23 *)

\* C23: one call of setModel by the grid, for every model and every prior
\* state of the filter, first updates the filter (type, dates, visibility)
\* and then invokes filterChangedCallback, exactly once; the change events
\* of the date controls raised meanwhile do not reach reapplyFilter, which
\* runs once, after all of them.
C23_SetModelRecalculatesOnce ==
    (pc = "gui" /\ StartedBy("grid: setModel")) =>
        /\ Times("reapplyFilter") <= 1
        /\ Times("filterChangedCallback") <= 1
        /\ \A i \in Places("reapplyFilter") :
               \A j \in 1..Len(chain) : chain[j] \in FilterUpdates => j < i
        /\ calls = <<>> =>
               /\ Times("filterChangedCallback") = 1
               /\ Times("updateModel") = 1

\* setModel has applied a Between model with both dates to a filter of
\* another type
C23_Witness ==
    /\ pc = "gui"
    /\ StartedBy("grid: setModel")
    /\ calls = <<>>
    /\ GuiFilterTypeIs(FT_BETWEEN)
    /\ startDateInput = <<"2", "0", "2", "0">>
    /\ endDateInput = <<"2", "0", "a">>
    /\ Times("start.onDateInputChanged") = 1
    /\ Times("end.onDateInputChanged") = 1
    /\ Times("filterChangedCallback") = 1

---------------------------------------------------------------------------
(* C24 *)

\* C24: after every completed operation on the date filter, the start date
\* control is hidden exactly when the type is Unknown and the end date
\* control is hidden exactly when the type is not Between.
C24_VisibilityFollowsType ==
    (pc = "gui" /\ calls = <<>>) =>
        /\ hideStartDate <=> GuiFilterTypeIs(FT_UNKNOWN)
        /\ hideEndDate <=> ~GuiFilterTypeIs(FT_BETWEEN)

\* setModel has changed the type to Unknown
C24_Witness ==
    /\ pc = "gui"
    /\ calls = <<>>
    /\ StartedBy("grid: setModel")
    /\ GuiFilterTypeIs(FT_UNKNOWN)
    /\ hideStartDate
    /\ hideEndDate

---------------------------------------------------------------------------
(* C30 *)

\* C30: one change event from the floating filter's editable control calls
\* the parent filter's setModel once, which triggers one filter
\* recalculation and one onParentModelChanged; configureGUI sets the
\* editable control's date without bubbling, so no filterChanged follows a
\* configureGUI, and every chain of handlers ends (it stays below
\* MaxGuiChain).
C30_FloatingEditTerminates ==
    pc = "gui" =>
        /\ \A i \in Places("configureGUI") :
               \A j \in Places("filterChanged") : j < i
        /\ \A i \in 1..Len(calls) :
               (calls[i].fn = "processDateUpdate"
                    /\ calls[i].control = "editable") => ~calls[i].bubbleEvent
        /\ Len(chain) < MaxGuiChain
        /\ StartedBy("user: floating date") =>
               /\ Times("filterChanged") <= 1
               /\ Times("setModel") <= 1
               /\ Times("filterChangedCallback") <= 1
               /\ Times("onParentModelChanged") <= 1
               /\ calls = <<>> =>
                      /\ Times("filterChanged") = 1
                      /\ Times("setModel") = 1
                      /\ Times("filterChangedCallback") = 1
                      /\ Times("onParentModelChanged") = 1

\* A year typed into the floating filter has become the start date of the
\* parent filter, and configureGUI has run for the new parent model
C30_Witness ==
    /\ pc = "gui"
    /\ StartedBy("user: floating date")
    /\ calls = <<>>
    /\ floatingValue = <<"2", "0", "2", "0">>
    /\ startDateInput = floatingValue
    /\ Times("configureGUI") = 1
    /\ Times("editable.onDateInputChanged") = 2
    /\ editableVisible

====
